---- MODULE Spec2Model ----
(***************************************************************************)
(* A model of the conversation engine of llm-utilities:                    *)
(*   src/src/base.py            ConversationNode, ToolHandler, Mailbox, Bot*)
(*   src/src/anthropic_bots.py  AnthropicToolHandler, AnthropicMailbox     *)
(*                                                                         *)
(* Text is a sequence of tokens (so that concatenation and strip() are     *)
(* computed, not assumed).  A content value is either a string or a list   *)
(* of typed segments; a node is a record and a tree is the sequence of its *)
(* nodes, a node's identity being its index (0 stands for None).           *)
(*                                                                         *)
(* Mailbox.send_message hands the bot to _send_message_implementation and  *)
(* _process_response; the model binds the implementation's parameters to   *)
(* the bot's fields (conversation = bot.conversation, and so on).          *)
(***************************************************************************)
EXTENDS Integers, Sequences, FiniteSets, TLC

VARIABLES
    nodes,      \* the conversation tree: node id -> ConversationNode
    current,    \* Bot.conversation: the id of the agent's current node
    tools,      \* ToolHandler.tools: the schema list handed to the provider
    function_map, \* ToolHandler.function_map: the names that have a callable
    requests,   \* ToolHandler.requests: pending tool requests
    results,    \* ToolHandler.results: pending tool results
    last_message, \* AnthropicMailbox.last_message (create_dict)
    pc,         \* where the respond call in progress stands ("idle": none)
    attempt,    \* the retry loop's variable of _send_message_implementation
    response,   \* the provider reply in hand
    call,       \* arguments and locals of the respond call in progress
    outcome,    \* how the last respond call ended, and the text it returned
    log,        \* the mailbox log file: the tags of the entries written
    hist,       \* history of the call in progress (counters, snapshot)
    mExisting,  \* merge_content: argument existing_content
    mNew,       \* merge_content: argument new_content
    mResult,    \* merge_content: the value returned
    tool_path,  \* Bot.tool_path: the file add_tools was last given
    reg,        \* history of the last add_tools call (path, outcome, sizes)
    loaded,     \* a tool file and the handler that add_tools_from_file fills
    workers     \* threads sending on the one mailbox: where each stands

treeVars == <<nodes, current>>
handlerVars == <<tools, function_map, requests, results>>
sendVars == <<last_message, pc, attempt, response, call, outcome, log, hist>>
mergeVars == <<mExisting, mNew, mResult>>
regVars == <<tool_path, reg>>
fileVars == <<loaded>>
batchVars == <<workers>>
vars == <<nodes, current, tools, function_map, requests, results, last_message,
          pc, attempt, response, call, outcome, log, hist,
          mExisting, mNew, mResult, tool_path, reg, loaded, workers>>

-----------------------------------------------------------------------------
(* Bounds of the model *)

\* nodes a tree may hold when an add_reply or a respond call starts
MaxNodes == 3

\* entries the tool schema list may hold when add_tool is called
MaxTools == 1

\* add_tool calls ahead of the respond call of SpecSend
MaxAdds == 2

\* truncated replies the provider may give within one send
MaxContinue == 1

\* segments of a content list handed to merge_content
MaxSegs == 2

\* entries the log may hold when a respond call starts
MaxLog == 3

\* transient errors the provider may raise within one send of Spec
MaxTransients == 1

\* top-level statements of a tool file
MaxDefs == 2

\* parameters of a function of a tool file
MaxParams == 2

\* threads that send on one mailbox at the same time
MaxWorkers == 2

\* the values random.uniform(0, 1) takes: k / JitterSteps for k < JitterSteps;
\* delays are counted in units of 1 / JitterSteps second
JitterSteps == 2

-----------------------------------------------------------------------------
(* Content values *)

None == 0

Str(s) == [kind |-> "str", text |-> s, segs |-> <<>>]

List(l) == [kind |-> "list", text |-> <<>>, segs |-> l]

\* {'type': 'text', 'text': s}
TextSeg(s) ==
    [type |-> "text", text |-> s, id |-> 0, name |-> "", input |-> "",
     tool_use_id |-> 0, content |-> <<>>]

\* {'type': 'tool_use', 'id': i, 'name': n, 'input': x}
ToolUseSeg(i, n, x) ==
    [type |-> "tool_use", text |-> <<>>, id |-> i, name |-> n, input |-> x,
     tool_use_id |-> 0, content |-> <<>>]

\* {'type': 'tool_result', 'tool_use_id': i, 'content': out}
ToolResultSeg(i, out) ==
    [type |-> "tool_result", text |-> <<>>, id |-> 0, name |-> "", input |-> "",
     tool_use_id |-> i, content |-> out]

NoAttrs == [names |-> {}, requests |-> <<>>, results |-> <<>>]

IsSpace(c) == c = " "

\* str.strip(): leading and trailing whitespace removed
RECURSIVE lstrip(_)
lstrip(s) == IF s # <<>> /\ IsSpace(Head(s)) THEN lstrip(Tail(s)) ELSE s

RECURSIVE rstrip(_)
rstrip(s) ==
    IF s # <<>> /\ IsSpace(s[Len(s)]) THEN rstrip(SubSeq(s, 1, Len(s) - 1)) ELSE s

strip(s) == rstrip(lstrip(s))

-----------------------------------------------------------------------------
(* ConversationNode *)

\* __init__(content, role, **kwargs) on a fresh object
NewNode(content, role, kw) ==
    [role |-> role, content |-> content, replies |-> <<>>, parent |-> None,
     attrs |-> kw]

\* __init__(**kwargs) called again on an existing object: the attributes set
\* by earlier keyword arguments stay unless the new ones overwrite them
ReInit(node, content, role, kw) ==
    [role |-> role, content |-> content, replies |-> <<>>, parent |-> None,
     attrs |-> [names |-> node.attrs.names \cup kw.names,
                requests |-> IF "requests" \in kw.names THEN kw.requests
                             ELSE node.attrs.requests,
                results |-> IF "results" \in kw.names THEN kw.results
                            ELSE node.attrs.results]]

create_empty == NewNode(Str(<<>>), "empty", NoAttrs)

\* is_empty() that takes no node for the sentinel
is_empty_never(node) == FALSE

is_empty(node) == node.role = "empty" /\ node.content = Str(<<>>)

\* add_reply: the tree after the call
add_reply(ns, n, content, role, kw) ==
    IF is_empty(ns[n])
    THEN [ns EXCEPT ![n] = ReInit(ns[n], content, role, kw)]
    ELSE Append([ns EXCEPT ![n].replies = Append(@, Len(ns) + 1)],
                [NewNode(content, role, kw) EXCEPT !.parent = n])

\* add_reply: the node returned
add_reply_node(ns, n) == IF is_empty(ns[n]) THEN n ELSE Len(ns) + 1

RECURSIVE find_root(_, _)
find_root(ns, n) == IF ns[n].parent # None THEN find_root(ns, ns[n].parent) ELSE n

RECURSIVE walk_messages(_, _, _)
walk_messages(ns, n, acc) ==
    IF n = None THEN acc
    ELSE walk_messages(ns, ns[n].parent,
                       <<[role |-> ns[n].role, content |-> ns[n].content]>> \o acc)

build_messages(ns, n) ==
    IF is_empty(ns[n]) THEN <<>> ELSE walk_messages(ns, n, <<>>)

RECURSIVE count_recursive(_, _)
RECURSIVE count_replies(_, _, _)
count_replies(ns, rs, i) ==
    IF i > Len(rs) THEN 0
    ELSE count_recursive(ns, rs[i]) + count_replies(ns, rs, i + 1)
count_recursive(ns, n) == 1 + count_replies(ns, ns[n].replies, 1)

node_count(ns, n) == count_recursive(ns, find_root(ns, n))

\* k.startswith('_'), for the attribute names of the model
startswith_underscore(k) == k \in {"_note"}

\* _to_dict_self without the attributes set from keyword arguments
to_dict_self_bare(node) ==
    [keys |-> {"role", "content"}, role |-> node.role, content |-> node.content,
     requests |-> <<>>, results |-> <<>>, replies |-> <<>>]

\* _to_dict_self: the public, non-callable attributes of the node other than
\* parent and replies.  A dict is a record with the set of its keys; the
\* value of a key it does not have is left at its default
to_dict_self(node) ==
    [keys |-> {"role", "content"}
                \cup {k \in node.attrs.names : ~startswith_underscore(k)},
     role |-> node.role, content |-> node.content,
     requests |-> IF "requests" \in node.attrs.names
                  THEN node.attrs.requests ELSE <<>>,
     results |-> IF "results" \in node.attrs.names
                 THEN node.attrs.results ELSE <<>>,
     replies |-> <<>>]

RECURSIVE to_dict_recursive(_, _)
to_dict_recursive(ns, n) ==
    IF ns[n].replies # <<>>
    THEN [to_dict_self(ns[n]) EXCEPT
            !.keys = @ \cup {"replies"},
            !.replies = [i \in DOMAIN ns[n].replies |->
                            to_dict_recursive(ns, ns[n].replies[i])]]
    ELSE to_dict_self(ns[n])

root_dict(ns, n) == to_dict_recursive(ns, find_root(ns, n))

\* the keyword arguments from_dict passes to the constructor besides content
\* and role: every key of the dict but 'replies'
dict_kwargs(data) ==
    [names |-> data.keys \ {"role", "content", "replies"},
     requests |-> IF "requests" \in data.keys THEN data.requests ELSE <<>>,
     results |-> IF "results" \in data.keys THEN data.results ELSE <<>>]

\* from_dict(data) building its nodes after those of ns: the node of data
\* gets the id Len(ns) + 1, and each reply is built by from_dict in turn,
\* given its parent and appended to the replies of its parent
RECURSIVE from_dict_into(_, _)
RECURSIVE from_dict_replies(_, _, _, _)
from_dict_replies(ns, id, reply_datas, i) ==
    IF i > Len(reply_datas) THEN ns
    ELSE LET reply_node == Len(ns) + 1
             ns1 == from_dict_into(ns, reply_datas[i])
         IN  from_dict_replies(
                 [ns1 EXCEPT ![reply_node].parent = id,
                             ![id].replies = Append(@, reply_node)],
                 id, reply_datas, i + 1)
from_dict_into(ns, data) ==
    from_dict_replies(
        Append(ns, NewNode(data.content, data.role, dict_kwargs(data))),
        Len(ns) + 1,
        IF "replies" \in data.keys THEN data.replies ELSE <<>>, 1)

from_dict(data) == from_dict_into(<<>>, data)

-----------------------------------------------------------------------------
(* ToolHandler / AnthropicToolHandler *)

ToolNames == {"add"}

\* what calling the registered callable returns
tool_output(name, input) == <<name, input>>

RECURSIVE Reversed(_)
Reversed(seq) ==
    IF seq = <<>> THEN <<>> ELSE Append(Reversed(Tail(seq)), Head(seq))

\* a parameter of a callable: its name, and whether it has a default value
\* (inspect.Parameter.default is not Parameter.empty)
Param(name, has_default) == [name |-> name, has_default |-> has_default]

ParamNames == <<"x", "y", "z">>

\* the parameter lists a def may have: the first n names, the last k of them
\* with a default (no parameter without a default follows one with a default)
ParamLists ==
    {[i \in 1..n |-> Param(ParamNames[i], i > n - k)] :
        <<n, k>> \in {<<a, b>> \in (0..MaxParams) \X (0..MaxParams) : b <= a}}

\* generate_tool_schema marking every parameter as required
generate_tool_schema_all_required(func) ==
    [name |-> func.name,
     properties |->
        [q \in {func.params[i].name : i \in DOMAIN func.params} |-> "string"],
     required |-> [i \in DOMAIN func.params |-> func.params[i].name]]

NoDefault(param) == ~param.has_default

RECURSIVE names_of(_)
names_of(params) ==
    IF params = <<>> THEN <<>> ELSE <<Head(params).name>> \o names_of(Tail(params))

\* AnthropicToolHandler.generate_tool_schema: the schema of a callable; its
\* name, one property of type string per parameter of the signature, and in
\* required the parameters whose default is Parameter.empty, in order
generate_tool_schema(func) ==
    [name |-> func.name,
     properties |->
        [q \in {func.params[i].name : i \in DOMAIN func.params} |-> "string"],
     required |-> names_of(SelectSeq(func.params, NoDefault))]

\* generate_request_schema listing the requests last block first
generate_request_schema_reversed(content) ==
    Reversed(SelectSeq(content, LAMBDA block : block.type = "tool_use"))

\* generate_request_schema finding no request
generate_request_schema_none(content) == <<>>

\* the tool_use blocks of a reply, in the order of the reply
generate_request_schema(content) ==
    SelectSeq(content, LAMBDA block : block.type = "tool_use")

\* generate_response_schema losing the id of the request
generate_response_schema_unknown(request, out) == ToolResultSeg(0, out)

generate_response_schema(request, out) == ToolResultSeg(request.id, out)

\* the loop of handle_response from request i on; failAt is the index of the
\* request whose callable raises (0: none does)
RECURSIVE run_tools(_, _, _, _, _)
run_tools(reqs, i, fmap, failAt, acc) ==
    IF i > Len(reqs) THEN acc
    ELSE IF reqs[i].name \notin fmap THEN [acc EXCEPT !.error = "KeyError"]
    ELSE IF failAt = i
         THEN [acc EXCEPT !.error = "ToolError",
                          !.invoked = Append(@, reqs[i].id)]
    ELSE run_tools(reqs, i + 1, fmap, failAt,
             [acc EXCEPT
                !.invoked = Append(@, reqs[i].id),
                !.requests = Append(@, reqs[i]),
                !.results = Append(@, generate_response_schema(reqs[i],
                                tool_output(reqs[i].name, reqs[i].input)))])

\* clear() leaving the buffer as it is
clear_kept(buffer) == buffer

\* clear(): what a pending buffer holds afterwards
clear(buffer) == <<>>

\* handle_response: clear(), then every request dispatched in turn
handle_response(content, fmap, failAt) ==
    run_tools(generate_request_schema(content), 1, fmap, failAt,
              [requests |-> clear(<<>>), results |-> clear(<<>>),
               invoked |-> <<>>, error |-> "none"])

-----------------------------------------------------------------------------
(* AnthropicMailbox *)

max_retries == 25

base_delay == 1

ValueError == [kind |-> "ValueError", text |-> <<>>, segs |-> <<>>]

merge_content(existing, new) ==
    IF existing.kind = "str" /\ new.kind = "str"
    THEN Str(strip(existing.text \o new.text))
    ELSE IF existing.kind = "str" /\ new.kind = "list"
    THEN IF new.segs # <<>> /\ new.segs[1].type = "text"
         THEN List(<<TextSeg(strip(existing.text \o new.segs[1].text))>>
                   \o Tail(new.segs))
         ELSE List(<<TextSeg(strip(existing.text))>> \o new.segs)
    ELSE IF existing.kind = "list" /\ new.kind = "list"
    THEN new
    ELSE IF existing.kind = "list" /\ new.kind = "str"
    THEN IF existing.segs # <<>> /\ existing.segs[Len(existing.segs)].type = "text"
         THEN List([existing.segs EXCEPT
                      ![Len(existing.segs)].text = strip(@ \o new.text)])
         ELSE List(Append(existing.segs, TextSeg(strip(new.text))))
    ELSE ValueError

AsSegs(content) ==
    IF content.kind = "str" THEN <<TextSeg(content.text)>> ELSE content.segs

\* the pending requests appended to the content of the current node's parent
splice_requests(ns, cur, reqs) ==
    IF reqs # <<>>
    THEN [ns EXCEPT ![ns[cur].parent].content = List(AsSegs(@) \o reqs)]
    ELSE ns

\* the pending results put in front of the content of the current node
splice_results(ns, cur, ress) ==
    IF ress # <<>>
    THEN [ns EXCEPT ![cur].content = List(ress \o AsSegs(@))]
    ELSE ns

\* create_dict with the new turn alone as its messages
create_dict_last_turn(ns, cur, tls) ==
    [set |-> TRUE,
     messages |-> <<[role |-> ns[cur].role, content |-> ns[cur].content]>>,
     tools |-> tls]

\* the dict handed to client.messages.create: the messages of the path from
\* the root to the new turn, and the tools
create_dict(ns, cur, tls) ==
    [set |-> TRUE, messages |-> build_messages(ns, cur), tools |-> tls]

NoMessage == [set |-> FALSE, messages |-> <<>>, tools |-> <<>>]

\* one pass of the loop of _process_response over the outbound messages
merge_reply(msgs, content) ==
    IF msgs[Len(msgs)].role = "assistant"
    THEN [msgs EXCEPT ![Len(msgs)].content = merge_content(@, List(content))]
    ELSE Append(msgs, [role |-> "assistant", content |-> List(content)])

RECURSIVE join_text(_)
join_text(segs) ==
    IF segs = <<>> THEN <<>>
    ELSE (IF Head(segs).type = "text" THEN Head(segs).text ELSE <<>>)
         \o join_text(Tail(segs))

response_text(final_content) ==
    IF final_content.kind = "str" THEN final_content.text
    ELSE join_text(final_content.segs)

\* the replies the provider may give; i is its next fresh tool_use id
ProviderReplies(i) ==
    { [content |-> <<TextSeg(<<"hi">>)>>, stop_reason |-> "end_turn",
       role |-> "assistant"],
      [content |-> <<TextSeg(<<"ok">>), ToolUseSeg(i, "add", "x")>>,
       stop_reason |-> "tool_use", role |-> "assistant"],
      [content |-> <<ToolUseSeg(i, "add", "x"), ToolUseSeg(i + 1, "add", "y")>>,
       stop_reason |-> "tool_use", role |-> "assistant"],
      [content |-> <<TextSeg(<<"pa", " ">>)>>, stop_reason |-> "max_tokens",
       role |-> "assistant"] }

NoResponse == [content |-> <<>>, stop_reason |-> "none", role |-> "none"]

-----------------------------------------------------------------------------
(* Bot *)

max_tool_prompts == 8

follow_up(counter) ==
    <<"(auto for ", ToString(max_tool_prompts - counter), " more tool calls max)">>

working == <<"\n\n ...working... \n\n">>

\* getattr(self.conversation, 'attributes', {}): the value of the attribute
\* named 'attributes' when the node has one, the empty dict otherwise
node_attributes(node) ==
    IF "attributes" \in node.attrs.names THEN node.attrs ELSE NoAttrs

\* extra_data.get('requests')
get_requests(extra_data) ==
    IF "requests" \in extra_data.names THEN extra_data.requests ELSE <<>>

NoCall ==
    [tool_auto |-> FALSE, content |-> <<>>, role |-> "", in_loop |-> FALSE,
     total_reply |-> <<>>, tool_prompt_counter |-> 0]

\* sends: send_message calls of the respond call; of the send in progress:
\* attempts (provider calls of the retry loop), transients (those that raised
\* a transient error), waits (backoff sleeps), raised (what the last provider
\* call of the retry loop raised), resends (provider calls of line 191),
\* delay (the local delay of the retry loop: the sleep before the attempt in
\* progress, gone when the loop is left),
\* continues (truncated replies), received (the text of the replies of the
\* send, in the order received); with_tools: reply nodes appended with
\* requests; issued: ids of the tool_use blocks of the replies dispatched;
\* invoked: ids of the requests whose callable was called; pre_*: the agent
\* when respond was called
NoHist ==
    [sends |-> 0, attempts |-> 0, transients |-> 0, waits |-> 0, raised |-> "",
     delay |-> 0,
     resends |-> 0, continues |-> 0, received |-> <<>>, with_tools |-> 0,
     issued |-> <<>>,
     invoked |-> <<>>, pre_nodes |-> <<>>, pre_current |-> 0,
     pre_requests |-> <<>>, pre_results |-> <<>>]

Running == [status |-> "running", text |-> <<>>]

Ok(text) == [status |-> "ok", text |-> text]

Error(kind) == [status |-> kind, text |-> <<>>]

\* an object, known by the expression that made it and by the constructor
\* call in which that expression was evaluated (0: when the class was defined)
Object(expr, k) == [made_by |-> expr, in_call |-> k]

\* Bot.__init__ keeps the objects it is given
Bot_init(conversation, tool_handler, mailbox) ==
    [conversation |-> conversation, tool_handler |-> tool_handler,
     mailbox |-> mailbox]

\* the default of the parameter conversation of Bot.__init__, evaluated once
default_conversation == Object("ConversationNode.create_empty()", 0)

\* AnthropicBot.__init__ leaving the conversation to the default of Bot.__init__
AnthropicBot_init_default(k) ==
    Bot_init(default_conversation, Object("AnthropicToolHandler()", k),
             Object("AnthropicMailbox()", k))

\* AnthropicBot.__init__, the k-th call of it: the objects the agent holds
AnthropicBot_init(k) ==
    Bot_init(Object("AnthropicNode.create_empty()", k),
             Object("AnthropicToolHandler()", k),
             Object("AnthropicMailbox()", k))

\* the agent the variables describe, and a second agent constructed after it
\* on which nothing is called
AgentA == AnthropicBot_init(1)

AgentB == AnthropicBot_init(2)

\* what the second agent sees of its tree, its registry and its buffers:
\* what it was constructed with, or the first agent's when it holds the
\* same object
OtherAgent ==
    [nodes |-> IF AgentB.conversation = AgentA.conversation
               THEN nodes ELSE <<create_empty>>,
     current |-> IF AgentB.conversation = AgentA.conversation
                 THEN current ELSE 1,
     tools |-> IF AgentB.tool_handler = AgentA.tool_handler
               THEN tools ELSE <<>>,
     function_map |-> IF AgentB.tool_handler = AgentA.tool_handler
                      THEN function_map ELSE {},
     requests |-> IF AgentB.tool_handler = AgentA.tool_handler
                  THEN requests ELSE <<>>,
     results |-> IF AgentB.tool_handler = AgentA.tool_handler
                 THEN results ELSE <<>>]

\* Bot.tool_path before add_tools has set it: the attribute does not exist
NoPath == "<unset>"

\* no add_tools call yet
NoReg == [path |-> NoPath, status |-> "none", pre_nodes |-> 0, pre_pending |-> 0]

\* no tool file read: its body, and the tools and function_map of the fresh
\* handler it is read into
NoFile == [body |-> <<>>, tools |-> <<>>, function_map |-> {}, done |-> FALSE]

\* the attributes Bot.__init__ sets: the keys of the agent's __dict__
bot_attributes ==
    {"api_key", "name", "model_engine", "max_tokens", "temperature", "role",
     "role_description", "conversation", "system_message", "tool_handler",
     "mailbox"}

\* ToolHandler.to_dict
to_dict(tls, fmap, reqs, ress) ==
    [class |-> "AnthropicToolHandler", tools |-> tls, function_map |-> fmap,
     requests |-> reqs, results |-> ress]

\* Bot.save: the record dumped to the file; the public attributes (tool_path
\* among them once add_tools has set it) without api_key and mailbox, with
\* bot_class, the conversation as the dict of root_dict() and the tool handler
\* as that of to_dict()
save(ns, cur, tls, fmap, reqs, ress, path) ==
    [keys |-> ({k \in bot_attributes \cup
                       (IF path = NoPath THEN {} ELSE {"tool_path"}) :
                  ~startswith_underscore(k)}
                 \ {"api_key", "mailbox"}) \cup {"bot_class"},
     conversation |-> root_dict(ns, cur),
     tool_handler |-> to_dict(tls, fmap, reqs, ress)]

\* a thread that has not called send_message: at (where it stands), built
\* (the create_dict its send built), response (the reply it was given), read
\* (self.last_message as its _process_response read it), text (what its
\* send returned)
IdleWorker ==
    [at |-> "idle", built |-> NoMessage, response |-> NoResponse,
     read |-> NoMessage, text |-> <<>>]

\* Bot.load on the record of save: a new AnthropicBot (fresh handler and
\* mailbox), the keys that are no constructor parameter set as attributes
\* (tool_handler among them, as the dict it was saved as), and conversation
\* the node ConversationNode.from_dict returns, the root of the rebuilt tree
load(data) ==
    [nodes |-> from_dict(data.conversation),
     current |-> 1,
     attributes |-> data.keys \ {"conversation"},
     tool_handler |-> data.tool_handler]

InitAgent ==
    /\ nodes = <<create_empty>>
    /\ current = 1
    /\ tools = <<>>
    /\ function_map = {}
    /\ requests = <<>>
    /\ results = <<>>
    /\ last_message = NoMessage
    /\ pc = "idle"
    /\ attempt = 0
    /\ response = NoResponse
    /\ call = NoCall
    /\ outcome = [status |-> "none", text |-> <<>>]
    /\ log = <<>>
    /\ hist = NoHist
    /\ tool_path = NoPath
    /\ reg = NoReg
    /\ workers = [w \in 1..MaxWorkers |-> IdleWorker]

NoResult == [kind |-> "none", text |-> <<>>, segs |-> <<>>]

Init ==
    /\ InitAgent
    /\ mExisting = Str(<<>>)
    /\ mNew = Str(<<>>)
    /\ mResult = NoResult
    /\ loaded = NoFile

\* add_tool starting the handler's pending lists afresh
AddTool_clearing(f) ==
    /\ pc = "idle"
    /\ tools' = Append(tools, f)
    /\ function_map' = function_map \cup {f}
    /\ requests' = <<>>
    /\ results' = <<>>
    /\ UNCHANGED <<treeVars, sendVars, mergeVars, regVars, fileVars, batchVars>>

\* AnthropicToolHandler.generate_tool_schema appends the schema and maps the
\* name itself and returns None, so ToolHandler.add_tool adds nothing more
AddTool(f) ==
    /\ pc = "idle"
    /\ tools' = Append(tools, f)
    /\ function_map' = function_map \cup {f}
    /\ UNCHANGED <<treeVars, requests, results, sendVars, mergeVars, regVars, fileVars, batchVars>>

\* the files add_tools is given: one that exists and one that does not
ToolFiles == {"tools.py", "missing.py"}

\* os.path.exists(file_path)
exists(file_path) == file_path = "tools.py"

\* the top-level function definitions of the file, in the order of its text
file_functions(file_path) == <<"add", "_note">>

IsPublic(name) == ~startswith_underscore(name)

\* extract_functions taking a missing file for an empty one
extract_functions_unchecked(file_path) ==
    [raised |-> "none",
     functions |-> IF exists(file_path)
                   THEN SelectSeq(file_functions(file_path), IsPublic)
                   ELSE <<>>]

\* ToolHandler.extract_functions: FileNotFoundError before anything is read,
\* else the functions of the file whose names do not start with '_'
extract_functions(file_path) ==
    IF ~exists(file_path)
    THEN [raised |-> "FileNotFoundError", functions |-> <<>>]
    ELSE [raised |-> "none",
          functions |-> SelectSeq(file_functions(file_path), IsPublic)]

\* the names given to the functions of a tool file
DefNames == {"add", "sub", "_note"}

\* the top-level statements of a tool file: function definitions, and the
\* others (assignments, classes, expressions) under the kind "other"
Statements ==
    {[kind |-> "def", name |-> n, params |-> ps] :
        n \in DefNames, ps \in ParamLists}
    \cup {[kind |-> "other", name |-> "", params |-> <<>>]}

\* a module defines a name once
DistinctDefs(body) ==
    \A i, j \in DOMAIN body :
        (i # j /\ body[i].kind = "def" /\ body[j].kind = "def") =>
            body[i].name # body[j].name

\* the tool files: up to MaxDefs top-level statements
ToolFileBodies ==
    {body \in UNION {[1..n -> Statements] : n \in 0..MaxDefs} : DistinctDefs(body)}

IsFunctionDef(node) == node.kind = "def"

IsExtracted(node) == ~startswith_underscore(node.name)

\* extract_functions on an existing file: the ast.FunctionDef nodes of
\* module.body, compiled, those whose name does not start with '_' returned
extracted_functions(body) ==
    SelectSeq(SelectSeq(body, IsFunctionDef), IsExtracted)

RECURSIVE schemas_of(_)
schemas_of(functions) ==
    IF functions = <<>> THEN <<>>
    ELSE <<generate_tool_schema(Head(functions))>> \o schemas_of(Tail(functions))

\* add_tools_from_file on a fresh handler: generate_tool_schema appends the
\* schema of every function extracted and maps its name
AddToolsFromFile ==
    /\ ~loaded.done
    /\ LET functions == extracted_functions(loaded.body)
       IN  loaded' = [loaded EXCEPT
                        !.tools = schemas_of(functions),
                        !.function_map =
                            {functions[i].name : i \in DOMAIN functions},
                        !.done = TRUE]
    /\ UNCHANGED <<treeVars, handlerVars, sendVars, mergeVars, regVars, batchVars>>

\* inspect.getfile of a registered callable: the file that defines it
getfile(name) == "tools.py"

\* the loop of ToolHandler.from_dict over the saved function_map: a function
\* whose file is there with the saved hash has its whole file registered
\* again by add_tools_from_file, any other has its saved code executed and is
\* registered by add_tool; either way generate_tool_schema appends to tools
RECURSIVE rehydrate(_, _, _)
rehydrate(names, handler, unchanged) ==
    IF names = {} THEN handler
    ELSE LET name == CHOOSE f \in names : TRUE
             functions == IF unchanged
                          THEN extract_functions(getfile(name)).functions
                          ELSE <<name>>
         IN  rehydrate(names \ {name},
                 [handler EXCEPT
                    !.tools = @ \o functions,
                    !.function_map =
                        @ \cup {functions[i] : i \in DOMAIN functions}],
                 unchanged)

\* ToolHandler.from_dict: a new handler given the saved tools, results and
\* requests, then the functions of the saved function_map registered on it;
\* unchanged: the files are there and hash as they did when saved
handler_from_dict(data, unchanged) ==
    rehydrate(data.function_map,
              [tools |-> data.tools, function_map |-> {},
               requests |-> data.requests, results |-> data.results],
              unchanged)

\* Bot.add_tools(filepath): tool_path is set, then add_tools_from_file calls
\* add_tool on every function extracted
AddTools(filepath) ==
    /\ pc = "idle"
    /\ tool_path' = filepath
    /\ LET ex == extract_functions(filepath)
       IN  /\ tools' = tools \o ex.functions
           /\ function_map' =
                 function_map \cup {ex.functions[i] : i \in DOMAIN ex.functions}
           /\ reg' = [path |-> filepath,
                      status |-> IF ex.raised = "none" THEN "ok" ELSE ex.raised,
                      pre_nodes |-> Len(nodes),
                      pre_pending |-> Len(requests) + Len(results)]
    /\ UNCHANGED <<treeVars, requests, results, sendVars, mergeVars, fileVars, batchVars>>

\* _log_message writing nothing
log_message_lost(lg, direction) == lg

\* _log_message(message, direction): the entry appended to the log file
log_message(lg, direction) == Append(lg, direction)

\* Mailbox.send_message up to the first provider call, on the tree ns1 whose
\* current node cur1 holds the new turn: _log_outgoing, then the head of
\* _send_message_implementation (requests and results spliced in, buffers
\* cleared, create_dict built and kept as last_message)
StartSend(ns1, cur1, reqs, ress, lm, lg, logOk, h) ==
    LET h1 == [h EXCEPT !.sends = @ + 1, !.attempts = 0, !.transients = 0,
                        !.waits = 0, !.raised = "", !.resends = 0,
                        !.delay = 0,
                        !.continues = 0, !.received = <<>>]
    IN  /\ current' = cur1
        /\ hist' = h1
        /\ attempt' = 0
        /\ IF ~logOk
           THEN /\ nodes' = ns1
                /\ requests' = reqs
                /\ results' = ress
                /\ pc' = "idle"
                /\ outcome' = Error("OSError")
                /\ last_message' = lm
                /\ log' = lg
           ELSE IF reqs # <<>> /\ ns1[cur1].parent = None
           THEN /\ nodes' = ns1
                /\ requests' = reqs
                /\ results' = ress
                /\ pc' = "idle"
                /\ outcome' = Error("AttributeError")
                /\ last_message' = lm
                /\ log' = log_message(lg, "OUTGOING")
           ELSE LET ns2 == splice_results(splice_requests(ns1, cur1, reqs),
                                          cur1, ress)
                IN  /\ nodes' = ns2
                    /\ requests' = clear(reqs)
                    /\ results' = clear(ress)
                    /\ last_message' = create_dict(ns2, cur1, tools)
                    /\ pc' = "attempt"
                    /\ outcome' = Running
                    /\ log' = log_message(lg, "OUTGOING")

\* Bot.respond(content, role, tool_auto) up to the first provider call:
\* (_respond_auto,) _cvsn_respond, add_reply of the new turn, send_message
Respond(text, role, auto, logOk) ==
    /\ pc = "idle"
    /\ call' = [NoCall EXCEPT !.tool_auto = auto, !.content = text,
                               !.role = role]
    /\ response' = NoResponse
    /\ StartSend(add_reply(nodes, current, Str(text), role, NoAttrs),
                 add_reply_node(nodes, current), requests, results,
                 last_message, log, logOk,
                 [NoHist EXCEPT !.pre_nodes = nodes, !.pre_current = current,
                                !.pre_requests = requests,
                                !.pre_results = results])
    /\ UNCHANGED <<tools, function_map, mergeVars, regVars, fileVars, batchVars>>

TransientErrors == {"RateLimitError", "InternalServerError"}

ProviderErrors == TransientErrors \cup {"APIError"}

\* the except clause sleeping after the last attempt too
except_clause_forever(a, kind) ==
    IF kind \in TransientErrors THEN "retry" ELSE kind

\* the except clause giving up one attempt early
except_clause_early(a, kind) ==
    IF kind \in TransientErrors
    THEN IF a = max_retries - 2 THEN kind ELSE "retry"
    ELSE kind

\* the except clause catching every class of error
except_clause_all(a, kind) ==
    IF a = max_retries - 1 THEN kind ELSE "retry"

\* the try/except of the retry loop on an error of class kind raised on
\* attempt a: a transient error is re-raised on the last attempt and is
\* otherwise followed by a sleep and the next attempt; no other error is
\* caught.  (The raise after the loop, line 152, is therefore never reached.)
except_clause(a, kind) ==
    IF kind \in TransientErrors
    THEN IF a = max_retries - 1 THEN kind ELSE "retry"
    ELSE kind

\* random.uniform(0, 1), in units of 1 / JitterSteps
Jitters == 0..(JitterSteps - 1)

\* a delay that does not grow with the attempts
delay_fixed(a, jitter) == base_delay * JitterSteps + jitter

\* delay = base_delay * (2 ** attempt) + random.uniform(0, 1), in units of
\* 1 / JitterSteps second
delay(a, jitter) == base_delay * (2 ^ a) * JitterSteps + jitter

\* client.messages.create raises an error of class kind in the retry loop
ProviderRaises(kind) ==
    /\ pc = "attempt"
    /\ attempt < max_retries
    /\ LET h1 == [hist EXCEPT !.attempts = @ + 1, !.raised = kind,
                              !.transients = IF kind \in TransientErrors
                                             THEN @ + 1 ELSE @]
       IN  IF except_clause(attempt, kind) = "retry"
           THEN /\ attempt' = attempt + 1
                /\ \E jitter \in Jitters :
                      hist' = [h1 EXCEPT !.waits = @ + 1,
                                         !.delay = delay(attempt, jitter)]
                /\ UNCHANGED <<pc, outcome>>
           ELSE /\ pc' = "idle"
                /\ outcome' = Error(except_clause(attempt, kind))
                /\ hist' = [h1 EXCEPT !.delay = 0]
                /\ UNCHANGED attempt
    /\ UNCHANGED <<treeVars, handlerVars, last_message, response, call, log,
                   mergeVars, regVars, fileVars, batchVars>>

Truncated(r) == r.stop_reason = "max_tokens"

\* client.messages.create returns r: _send_message_implementation returns it
ProviderReturns(r) ==
    /\ pc = "attempt"
    /\ attempt < max_retries
    /\ response' = r
    /\ pc' = "process"
    /\ hist' = [hist EXCEPT !.attempts = @ + 1, !.raised = "", !.delay = 0,
                            !.received = @ \o join_text(r.content),
                            !.continues = IF Truncated(r) THEN @ + 1 ELSE @]
    /\ UNCHANGED <<treeVars, handlerVars, last_message, attempt, call, outcome,
                   log, mergeVars, regVars, fileVars, batchVars>>

\* line 191: the resend of a truncated reply returns r
ContinuationReturns(r) ==
    /\ pc = "continue"
    /\ response' = r
    /\ pc' = "process"
    /\ hist' = [hist EXCEPT !.resends = @ + 1,
                            !.received = @ \o join_text(r.content),
                            !.continues = IF Truncated(r) THEN @ + 1 ELSE @]
    /\ UNCHANGED <<treeVars, handlerVars, last_message, attempt, call, outcome,
                   log, mergeVars, regVars, fileVars, batchVars>>

\* line 191: the resend raises; nothing catches it
ContinuationRaises(kind) ==
    /\ pc = "continue"
    /\ pc' = "idle"
    /\ outcome' = Error(kind)
    /\ hist' = [hist EXCEPT !.resends = @ + 1]
    /\ UNCHANGED <<treeVars, handlerVars, last_message, attempt, response, call,
                   log, mergeVars, regVars, fileVars, batchVars>>

\* _process_response from the top of its loop, with the reply in hand, and,
\* when the reply is not truncated, everything that follows the loop up to the
\* next provider call or the return of respond: the tools dispatched by
\* handle_response (the callable of request failAt raises), _log_incoming,
\* the reply node appended by _cvsn_respond, and the loop of _respond_auto
ProcessResponse(failAt, logOk, logOk2) ==
    /\ pc = "process"
    /\ UNCHANGED <<tools, function_map, attempt, response, mergeVars, regVars, fileVars, batchVars>>
    /\ IF last_message.messages = <<>>
       THEN \* new_message["messages"][-1] of an empty list
            /\ pc' = "idle"
            /\ outcome' = Error("IndexError")
            /\ UNCHANGED <<treeVars, requests, results, last_message, call,
                           log, hist>>
       ELSE
       LET msgs1 == merge_reply(last_message.messages, response.content)
           lm1 == [last_message EXCEPT !.messages = msgs1]
           called == response.stop_reason = "tool_use"
           d == IF called
                THEN handle_response(response.content, function_map, failAt)
                ELSE [requests |-> requests, results |-> results,
                      invoked |-> <<>>, error |-> "none"]
           extra_data == IF called
                         THEN [names |-> {"requests", "results"},
                               requests |-> d.requests, results |-> d.results]
                         ELSE NoAttrs
           text == response_text(msgs1[Len(msgs1)].content)
           h1 == [hist EXCEPT
                    !.invoked = @ \o d.invoked,
                    !.issued = IF called
                               THEN @ \o generate_request_schema(response.content)
                               ELSE @]
           ns1 == add_reply(nodes, current, Str(text), response.role, extra_data)
           cur1 == add_reply_node(nodes, current)
           h2 == [h1 EXCEPT !.with_tools =
                        IF get_requests(extra_data) # <<>> THEN @ + 1 ELSE @]
           total == IF call.in_loop THEN call.total_reply \o working \o text
                    ELSE text
           counter == IF call.in_loop THEN call.tool_prompt_counter + 1 ELSE 1
       IN
       IF msgs1[Len(msgs1)].content = ValueError
       THEN /\ pc' = "idle"
            /\ outcome' = Error("ValueError")
            /\ UNCHANGED <<treeVars, requests, results, last_message, call,
                           log, hist>>
       ELSE IF Truncated(response)
       THEN /\ pc' = "continue"
            /\ last_message' = lm1
            /\ UNCHANGED <<treeVars, requests, results, call, outcome, log, hist>>
       ELSE IF d.error # "none" \/ ~logOk
       THEN \* a tool is unknown or raises, or _log_incoming raises
            /\ pc' = "idle"
            /\ outcome' = Error(IF d.error # "none" THEN d.error ELSE "OSError")
            /\ requests' = d.requests
            /\ results' = d.results
            /\ last_message' = lm1
            /\ hist' = h1
            /\ UNCHANGED <<treeVars, call, log>>
       ELSE IF ~call.tool_auto
       THEN /\ pc' = "idle"
            /\ outcome' = Ok(text)
            /\ nodes' = ns1
            /\ current' = cur1
            /\ requests' = d.requests
            /\ results' = d.results
            /\ last_message' = lm1
            /\ log' = log_message(log, "INCOMING")
            /\ hist' = h2
            /\ UNCHANGED call
       ELSE IF /\ counter < max_tool_prompts
               /\ get_requests(node_attributes(ns1[cur1])) # <<>>
       THEN /\ call' = [call EXCEPT !.in_loop = TRUE, !.total_reply = total,
                                    !.tool_prompt_counter = counter]
            /\ StartSend(add_reply(ns1, cur1, Str(follow_up(counter)),
                                   call.role, NoAttrs),
                         add_reply_node(ns1, cur1), d.requests, d.results,
                         lm1, log_message(log, "INCOMING"), logOk2, h2)
       ELSE /\ pc' = "idle"
            /\ outcome' = Ok(total)
            /\ nodes' = ns1
            /\ current' = cur1
            /\ requests' = d.requests
            /\ results' = d.results
            /\ last_message' = lm1
            /\ log' = log_message(log, "INCOMING")
            /\ hist' = h2
            /\ call' = [call EXCEPT !.in_loop = TRUE, !.total_reply = total,
                                    !.tool_prompt_counter = counter]

SegIds(segs) ==
    {segs[i].id : i \in DOMAIN segs} \cup {segs[i].tool_use_id : i \in DOMAIN segs}

\* the tool_use ids the agent holds: in the tree and in the pending buffers
UsedIds ==
    UNION {SegIds(nodes[n].content.segs) \cup SegIds(nodes[n].attrs.requests)
             \cup SegIds(nodes[n].attrs.results) : n \in DOMAIN nodes}
      \cup SegIds(requests) \cup SegIds(results)

\* the provider gives every tool_use block an id of its own: the ids of a
\* reply are new to the agent
fresh_id == 1 + CHOOSE m \in UsedIds \cup {0} : \A x \in UsedIds : x <= m

\* the (content, role) arguments respond is called with
RespondArgs == {<<<<"a">>, "user">>, <<<<>>, "empty">>}

\* the replies the provider may give now: at most MaxContinue truncated ones
\* within one send
RepliesNow ==
    {r \in ProviderReplies(fresh_id) : Truncated(r) => hist.continues < MaxContinue}

\* the steps of a send once it has reached the provider
SendSteps ==
    \/ \E r \in RepliesNow : ProviderReturns(r)
    \/ \E failAt \in 0..2, logOk \in BOOLEAN, logOk2 \in BOOLEAN :
          ProcessResponse(failAt, logOk, logOk2)
    \/ \E r \in RepliesNow : ContinuationReturns(r)
    \/ \E kind \in ProviderErrors : ContinuationRaises(kind)

\* The agent over several respond calls without tool_auto; the provider raises
\* at most MaxTransients transient errors within one send
Next ==
    \/ /\ Len(tools) < MaxTools
       /\ \E f \in ToolNames : AddTool(f)
    \/ /\ Len(nodes) < MaxNodes
       /\ Len(log) < MaxLog
       /\ \E a \in RespondArgs, logOk \in BOOLEAN :
             Respond(a[1], a[2], FALSE, logOk)
    \/ \E kind \in ProviderErrors :
          /\ kind \in TransientErrors => hist.transients < MaxTransients
          /\ ProviderRaises(kind)
    \/ SendSteps

Spec == Init /\ [][Next]_vars

\* One respond call of a fresh agent, with every behaviour of the provider:
\* any number of transient errors, up to the retry bound
NextSend ==
    \/ /\ Len(tools) < MaxAdds
       /\ hist.sends = 0
       /\ \E f \in ToolNames : AddTool(f)
    \/ /\ hist.sends = 0
       /\ \E a \in RespondArgs, auto \in BOOLEAN, logOk \in BOOLEAN :
             Respond(a[1], a[2], auto, logOk)
    \/ \E kind \in ProviderErrors : ProviderRaises(kind)
    \/ SendSteps

SpecSend == Init /\ [][NextSend]_vars

\* the steps of a send in progress: a provider call returns or raises, and
\* the code that follows it runs
SendProgress ==
    \/ \E kind \in ProviderErrors : ProviderRaises(kind)
    \/ SendSteps

\* SpecSend with every provider call returning or raising and the caller's
\* thread running on
SpecSendFair == Init /\ [][NextSend]_vars /\ WF_vars(SendProgress)

\* the (content, role) arguments of respond in the registration runs
RegArgs == {<<<<"a">>, "user">>}

\* The agent registering tools, one by one and from files, between respond
\* calls without tool_auto
NextReg ==
    \/ /\ Len(tools) < MaxAdds
       /\ \E f \in ToolNames : AddTool(f)
    \/ \E filepath \in ToolFiles :
          /\ Len(tools) + Len(extract_functions(filepath).functions) <= MaxAdds
          /\ AddTools(filepath)
    \/ /\ Len(nodes) < MaxNodes
       /\ Len(log) < MaxLog
       /\ \E a \in RegArgs : Respond(a[1], a[2], FALSE, TRUE)
    \/ \E kind \in ProviderErrors :
          /\ kind \in TransientErrors => hist.transients < MaxTransients
          /\ ProviderRaises(kind)
    \/ SendSteps

SpecReg == Init /\ [][NextReg]_vars

-----------------------------------------------------------------------------
(* The tree on its own: any sequence of add_reply calls on any node *)

TreeRoles == {"user", "assistant", "empty"}

TreeTexts == {<<>>, <<"a">>}

\* the keyword arguments besides content and role: none, or a private
\* attribute and the extra data of a reply with one tool request
TreeAttrs ==
    {NoAttrs,
     [names |-> {"_note", "requests", "results"},
      requests |-> <<ToolUseSeg(1, "add", "x")>>,
      results |-> <<ToolResultSeg(1, tool_output("add", "x"))>>]}

AddReply(n, content, role, kw) ==
    /\ nodes' = add_reply(nodes, n, content, role, kw)
    /\ current' = add_reply_node(nodes, n)
    /\ UNCHANGED <<handlerVars, sendVars, mergeVars, regVars, fileVars, batchVars>>

NextTree ==
    /\ Len(nodes) < MaxNodes
    /\ \E n \in 1..Len(nodes), t \in TreeTexts, r \in TreeRoles,
          kw \in TreeAttrs :
          AddReply(n, Str(t), r, kw)

SpecTree == Init /\ [][NextTree]_vars

-----------------------------------------------------------------------------
(* merge_content on its own: applied once to every pair of inputs *)

MergeTexts == {<<>>, <<"a">>, <<" ", "b">>}

MergeSegs == {TextSeg(<<"a">>), TextSeg(<<"b", " ">>), ToolUseSeg(1, "add", "x")}

MergeInputs ==
    {Str(t) : t \in MergeTexts}
      \cup {List(l) : l \in UNION {[1..k -> MergeSegs] : k \in 0..MaxSegs}}

InitMerge ==
    /\ InitAgent
    /\ mExisting \in MergeInputs
    /\ mNew \in MergeInputs
    /\ mResult = NoResult
    /\ loaded = NoFile

Merge ==
    /\ mResult = NoResult
    /\ mResult' = merge_content(mExisting, mNew)
    /\ UNCHANGED <<treeVars, handlerVars, sendVars, mExisting, mNew, regVars, fileVars, batchVars>>

SpecMerge == InitMerge /\ [][Merge]_vars

----------------------------------------------------------------------------
(* Threads of the caller sending on one mailbox.  batch_send itself raises  *)
(* on its first line and starts no thread; the threads are the caller's.    *)

\* the user turns the threads send
WorkerTexts == {<<"a">>, <<"b">>, <<"a", "b">>}

\* the replies given to the threads: those that end the turn
WorkerReplies == {r \in ProviderReplies(1) : r.stop_reason = "end_turn"}

\* _send_message_implementation of thread w up to line 133: the payload of
\* its own conversation, one user turn, is built and stored in the mailbox's
\* last_message
WorkerBuilds(w, text) ==
    /\ workers[w].at = "idle"
    /\ LET conversation == <<NewNode(Str(text), "user", NoAttrs)>>
           payload == create_dict(conversation, 1, tools)
       IN  /\ last_message' = payload
           /\ workers' = [workers EXCEPT ![w].at = "sent", ![w].built = payload]
    /\ UNCHANGED <<treeVars, handlerVars, pc, attempt, response, call, outcome,
                   log, hist, mergeVars, regVars, fileVars>>

\* client.messages.create of thread w returns r
WorkerReceives(w, r) ==
    /\ workers[w].at = "sent"
    /\ workers' = [workers EXCEPT ![w].at = "replied", ![w].response = r]
    /\ UNCHANGED <<treeVars, handlerVars, sendVars, mergeVars, regVars, fileVars>>

\* _process_response of thread w: new_message = self.last_message.copy(), a
\* shallow copy whose messages list is that of last_message, and the reply
\* merged into its last message or appended to it
WorkerProcesses(w) ==
    /\ workers[w].at = "replied"
    /\ last_message.messages # <<>>
    /\ LET msgs1 == merge_reply(last_message.messages, workers[w].response.content)
       IN  /\ last_message' = [last_message EXCEPT !.messages = msgs1]
           /\ workers' = [workers EXCEPT
                             ![w].at = "done",
                             ![w].read = last_message,
                             ![w].text = response_text(msgs1[Len(msgs1)].content)]
    /\ UNCHANGED <<treeVars, handlerVars, pc, attempt, response, call, outcome,
                   log, hist, mergeVars, regVars, fileVars>>

NextBatch ==
    \E w \in 1..MaxWorkers :
        \/ \E text \in WorkerTexts : WorkerBuilds(w, text)
        \/ \E r \in WorkerReplies : WorkerReceives(w, r)
        \/ WorkerProcesses(w)

SpecBatch == Init /\ [][NextBatch]_vars

----------------------------------------------------------------------------
(* add_tools_from_file on its own: applied once to every tool file *)

InitFile ==
    /\ InitAgent
    /\ mExisting = Str(<<>>)
    /\ mNew = Str(<<>>)
    /\ mResult = NoResult
    /\ loaded \in {[NoFile EXCEPT !.body = body] : body \in ToolFileBodies}

SpecFile == InitFile /\ [][AddToolsFromFile]_vars

-----------------------------------------------------------------------------
(* Claims about the conversation tree (under SpecTree) *)

RECURSIVE Depth(_, _)
Depth(ns, n) == IF ns[n].parent = None THEN 0 ELSE 1 + Depth(ns, ns[n].parent)

RECURSIVE Ancestor(_, _, _)
Ancestor(ns, n, k) == IF k = 0 THEN n ELSE Ancestor(ns, ns[n].parent, k - 1)

\* the node a reply was attached to: the node whose replies list holds n
Holder(ns, n) ==
    {m \in DOMAIN ns : \E i \in DOMAIN ns[m].replies : ns[m].replies[i] = n}

\* the number of edges of the replies lists above n
RECURSIVE HeldDepth(_, _)
HeldDepth(ns, n) ==
    IF Holder(ns, n) = {} THEN 0
    ELSE 1 + HeldDepth(ns, CHOOSE m \in Holder(ns, n) : TRUE)

\* the empty sentinel as create_empty() makes it, not yet replied to
UntouchedSentinel(ns) == ns = <<create_empty>>

\* C1: after any sequence of add_reply calls from the empty sentinel,
\* build_messages(current) is the {role, content} entries of the nodes on the
\* path from the root to current, root first, of length depth(current) + 1
C1_LinearizeIsRootPath ==
    ~UntouchedSentinel(nodes) =>
        LET msgs == build_messages(nodes, current)
            d == HeldDepth(nodes, current)
        IN  /\ Len(msgs) = d + 1
            /\ d = Depth(nodes, current)
            /\ \A i \in 1..Len(msgs) :
                  LET m == Ancestor(nodes, current, Len(msgs) - i)
                  IN  msgs[i] = [role |-> nodes[m].role,
                                 content |-> nodes[m].content]

-----------------------------------------------------------------------------
(* Claims about respond (under Spec) *)

Returned == pc = "idle" /\ outcome.status = "ok"

Failed == pc = "idle" /\ outcome.status \notin {"none", "ok"}

\* C2: respond without tool_auto appends the text as one new node, sends
\* exactly once, appends the reply as the one child of that node, leaves the
\* current pointer on the reply and returns the reply text
C2_RespondAppendsOnce ==
    (Returned /\ ~call.tool_auto) =>
        LET U == nodes[current].parent
            pre == hist.pre_nodes
        IN  /\ hist.sends = 1
            /\ U # None
            /\ \/ /\ UntouchedSentinel(pre)
                  /\ U = 1
                  /\ Len(nodes) = 2
               \/ /\ U = Len(pre) + 1
                  /\ nodes[U].parent = hist.pre_current
                  /\ Len(nodes) = Len(pre) + 2
            /\ nodes[U].role = call.role
            /\ nodes[U].content \in
                  {Str(call.content),
                   List(hist.pre_results \o <<TextSeg(call.content)>>)}
            /\ nodes[U].replies = <<current>>
            /\ nodes[current].role = "assistant"
            /\ nodes[current].content = Str(outcome.text)
            /\ nodes[current].replies = <<>>

\* retry bound exhausted, fatal provider error, content-merge failure,
\* tool-dispatch failure
SendFailures == ProviderErrors \cup {"ValueError", "KeyError", "ToolError"}

\* C3: when a respond call fails, the tree and the current pointer are as
\* they were before the call
C3_FailureLeavesTree ==
    (pc = "idle" /\ outcome.status \in SendFailures) =>
        (nodes = hist.pre_nodes /\ current = hist.pre_current)

Count(seq, x) == Cardinality({i \in DOMAIN seq : seq[i] = x})

\* how often a tool_use (tool_result) segment of id i stands in the content
\* of the nodes of the tree
RequestsInTree(i) ==
    Cardinality({<<n, k>> \in (DOMAIN nodes) \X (1..8) :
        /\ k \in DOMAIN nodes[n].content.segs
        /\ nodes[n].content.segs[k].type = "tool_use"
        /\ nodes[n].content.segs[k].id = i})

ResultsInTree(i) ==
    Cardinality({<<n, k>> \in (DOMAIN nodes) \X (1..8) :
        /\ k \in DOMAIN nodes[n].content.segs
        /\ nodes[n].content.segs[k].type = "tool_result"
        /\ nodes[n].content.segs[k].tool_use_id = i})

\* every request of the reply dispatched in this call has been invoked once
\* and has one pending result
AllResolved ==
    \A k \in DOMAIN hist.issued :
        LET i == hist.issued[k].id
        IN  /\ Count(hist.invoked, i) = 1
            /\ Cardinality({j \in DOMAIN results : results[j].tool_use_id = i}) = 1
            /\ Cardinality({j \in DOMAIN requests : requests[j].id = i}) = 1

\* no pair is spliced twice, and a pair that stands in the tree is no longer
\* pending
SplicedAtMostOnce ==
    \A i \in UsedIds \ {0} :
        /\ RequestsInTree(i) <= 1
        /\ ResultsInTree(i) <= 1
        /\ RequestsInTree(i) = 1 => \A j \in DOMAIN requests : requests[j].id # i
        /\ ResultsInTree(i) = 1 =>
              \A j \in DOMAIN results : results[j].tool_use_id # i

----------------------------------------------------------------------------
\* Claims about the retry loop and the auto loop (under SpecSend)

\* the retry loop has returned a reply to send_message
LoopReturned == hist.attempts > 0 /\ hist.raised = ""

\* C5: when the provider raises a transient error K < 25 times and then
\* returns, the send is still in its loop to take that reply and returns with
\* it after exactly K + 1 attempts, one backoff wait after each error
C5_TransientsThenSuccess ==
    /\ LoopReturned =>
          /\ hist.transients < max_retries
          /\ hist.attempts = hist.transients + 1
          /\ hist.waits = hist.transients
    /\ (hist.raised \in TransientErrors /\ hist.transients < max_retries) =>
          /\ pc = "attempt"
          /\ attempt = hist.transients
          /\ outcome = Running

\* the reply is returned on the 25th attempt, after 24 transient errors
C5_Witness ==
    /\ LoopReturned
    /\ pc = "process"
    /\ hist.transients = max_retries - 1
    /\ hist.attempts = max_retries

\* C6: when every attempt raises a transient error the send fails after
\* exactly 25 attempts, and the error it raises is not of a transient class
C6_RetryExhausted ==
    (pc = "idle" /\ hist.attempts > 0 /\ hist.transients = hist.attempts) =>
        /\ hist.attempts = max_retries
        /\ outcome.status \notin TransientErrors \cup {"none", "ok", "running"}

\* C7: an error of the provider that is neither a rate-limit nor an
\* internal-server error leaves the send on the attempt it is raised on, with
\* no wait after it and no further attempt
C7_FatalNotRetried ==
    (hist.raised \notin TransientErrors \cup {""}) =>
        /\ pc = "idle"
        /\ outcome = Error(hist.raised)
        /\ hist.attempts = hist.transients + 1
        /\ hist.waits = hist.transients

\* a fatal error raised on the third attempt, after two transient ones
C7_Witness ==
    /\ hist.raised = "APIError"
    /\ hist.transients = 2
    /\ hist.attempts = 3
    /\ pc = "idle"

\* C8: when every reply of the provider carries a tool request, respond with
\* tool_auto performs exactly 8 cycles and returns without error
C8_AutoLoopRunsToCap ==
    (Returned /\ call.tool_auto /\ hist.with_tools = hist.sends) =>
        hist.sends = max_tool_prompts

\* C9: a first reply with tool requests leads to at least two sends, and the
\* auto loop stops only on a reply without requests or at the cap
C9_AutoLoopInspectsReply ==
    (Returned /\ call.tool_auto) =>
        /\ hist.with_tools > 0 => hist.sends >= 2
        /\ \/ get_requests(nodes[current].attrs) = <<>>
           \/ call.tool_prompt_counter = max_tool_prompts

----------------------------------------------------------------------------
\* Claims about merge_content (under SpecMerge)

unspaced(text) == SelectSeq(text, LAMBDA c : ~IsSpace(c))

IsToolSeg(seg) == seg.type # "text"

tool_segments(content) == SelectSeq(content.segs, IsToolSeg)

\* C10: merge_content returns, for each of the four type combinations, a
\* content that holds the text of both inputs, existing before new, and every
\* tool segment of both
C10_MergeLossFree ==
    mResult # NoResult =>
        /\ mResult.kind \in {"str", "list"}
        /\ unspaced(response_text(mResult)) =
              unspaced(response_text(mExisting) \o response_text(mNew))
        /\ tool_segments(mResult) =
              tool_segments(mExisting) \o tool_segments(mNew)

----------------------------------------------------------------------------
\* Claims about truncated replies (under Spec)

\* C11: the text returned by a send holds the text of every reply the
\* provider gave in that send, the truncated ones included, in the order
\* received
C11_TruncatedTextKept ==
    (Returned /\ hist.sends = 1) =>
        unspaced(outcome.text) = unspaced(hist.received)

----------------------------------------------------------------------------
\* Claims about the pending buffers (under Spec)

\* the buffers hold the requests reqs and, for each, its result
HoldsPairs(reqs) ==
    /\ requests = reqs
    /\ Len(results) = Len(reqs)
    /\ \A i \in DOMAIN reqs :
          results[i] = ToolResultSeg(reqs[i].id,
                                     tool_output(reqs[i].name, reqs[i].input))

Contains(segs, seg) == \E k \in DOMAIN segs : segs[k] = seg

\* the step embeds the pending pairs in the tree and empties the buffers
EmbedsPending ==
    /\ pc' = "attempt"
    /\ requests' = <<>>
    /\ results' = <<>>
    /\ nodes'[current'].parent # None
    /\ \A i \in DOMAIN requests :
          Contains(nodes'[nodes'[current'].parent].content.segs, requests[i])
    /\ \A i \in DOMAIN results :
          Contains(nodes'[current'].content.segs, results[i])

\* C12: after a reply with n requests is dispatched without error the buffers
\* hold those n requests and their n results, result i with the id of request
\* i and the output of its tool on its input; filled buffers change only by
\* the send that embeds them, and are empty after it
C12_PendingUntilEmbedded ==
    /\ [](/\ (Returned /\ response.stop_reason = "tool_use") =>
                HoldsPairs(generate_request_schema(response.content))
          /\ pc \in {"attempt", "process", "continue"} =>
                (requests = <<>> /\ results = <<>>))
    /\ [][(requests # <<>> /\ <<requests, results>>' # <<requests, results>>)
             => EmbedsPending]_vars

\* a send has embedded the two pairs that were pending when respond was called
C12_Witness ==
    /\ pc = "attempt"
    /\ Len(hist.pre_requests) = 2
    /\ Len(hist.pre_results) = 2
    /\ requests = <<>>
    /\ Contains(nodes[nodes[current].parent].content.segs, hist.pre_requests[2])
    /\ Contains(nodes[current].content.segs, hist.pre_results[2])

HasToolSeg(content) ==
    \E k \in DOMAIN content.segs : content.segs[k].type # "text"

\* C13: a send that starts with pending requests and results sends a message
\* list whose second-to-last message is the prior assistant turn, its text
\* followed by the requests, and whose last message holds the results ahead
\* of the new user text; no other message holds a request or a result
C13_SplicedIntoLastTwo ==
    (pc = "attempt" /\ hist.pre_requests # <<>> /\ hist.pre_results # <<>>) =>
        LET m == last_message.messages
            n == Len(m)
        IN  /\ n >= 2
            /\ m[n - 1].role = "assistant"
            /\ m[n - 1].content =
                  List(AsSegs(hist.pre_nodes[hist.pre_current].content)
                       \o hist.pre_requests)
            /\ m[n].content =
                  List(hist.pre_results \o <<TextSeg(call.content)>>)
            /\ \A k \in 1..(n - 2) :
                  \A j \in DOMAIN m[k].content.segs :
                      /\ ~Contains(hist.pre_requests, m[k].content.segs[j])
                      /\ ~Contains(hist.pre_results, m[k].content.segs[j])

\* C14: when the dispatch of a batch fails at a request the error reaches the
\* caller, the callable of no later request of the batch has been invoked,
\* and no request or result of the batch is left pending
C14_FailedBatchNotApplied ==
    (pc = "idle" /\ outcome.status \in {"KeyError", "ToolError"}) =>
        /\ Len(hist.invoked) <= Len(hist.issued)
        /\ \A k \in DOMAIN hist.issued :
              k > Len(hist.invoked) + 1 =>
                  Count(hist.invoked, hist.issued[k].id) = 0
        /\ \A k \in DOMAIN hist.issued :
              /\ ~Contains(requests, hist.issued[k])
              /\ \A j \in DOMAIN results :
                    results[j].tool_use_id # hist.issued[k].id

----------------------------------------------------------------------------
\* Claims about the tree (under SpecTree)

\* C15: in every tree built by add_reply calls each node other than the
\* root has a parent, stands exactly once in its parent's replies, and
\* reaches the one root by its parent pointers
C15_TreeWellFormed ==
    \A n \in DOMAIN nodes :
        /\ find_root(nodes, n) = 1
        /\ n # 1 =>
              /\ nodes[n].parent # None
              /\ Count(nodes[nodes[n].parent].replies, n) = 1

\* the extra attributes whose names do not start with an underscore
PublicAttrs(attrs) ==
    [attrs EXCEPT !.names = {k \in @ : ~startswith_underscore(k)}]

\* the subtree of a under x and the subtree of b under y have the same
\* shape: role, content and extra attributes (all of them, or the public
\* ones) of each node, children in order
RECURSIVE SameShape(_, _, _, _, _)
SameShape(a, x, b, y, all) ==
    /\ a[x].role = b[y].role
    /\ a[x].content = b[y].content
    /\ (IF all THEN a[x].attrs ELSE PublicAttrs(a[x].attrs)) = b[y].attrs
    /\ Len(a[x].replies) = Len(b[y].replies)
    /\ \A i \in DOMAIN a[x].replies :
          SameShape(a, a[x].replies[i], b, b[y].replies[i], all)

RECURSIVE NoParentKey(_)
NoParentKey(data) ==
    /\ "parent" \notin data.keys
    /\ \A i \in DOMAIN data.replies : NoParentKey(data.replies[i])

\* each child's parent is the node that holds it, and the root has none
ParentsRebuilt(t) ==
    /\ t[1].parent = None
    /\ \A m \in DOMAIN t :
          \A i \in DOMAIN t[m].replies : t[t[m].replies[i]].parent = m

C17_NodeCountIsTotal ==
    \A n \in DOMAIN nodes :
        /\ node_count(nodes, n) = 1 + count_replies(nodes, nodes[1].replies, 1)
        /\ node_count(nodes, n) = Len(nodes)

----------------------------------------------------------------------------
\* Claims about the sentinel root (under Spec)

\* C18: add_reply on the empty sentinel root makes that node, in place, the
\* node of the given role and content and returns it, with no child and a
\* node count of 1; build_messages on the empty sentinel is the empty sequence
C18_SentinelReplacedInPlace ==
    /\ UntouchedSentinel(nodes) => build_messages(nodes, current) = <<>>
    /\ (UntouchedSentinel(hist.pre_nodes) /\ pc = "attempt") =>
          /\ nodes = <<NewNode(Str(call.content), call.role, NoAttrs)>>
          /\ current = hist.pre_current
          /\ node_count(nodes, current) = 1

\* the first turn "a" of a user has replaced the sentinel
C18_Witness ==
    /\ UntouchedSentinel(hist.pre_nodes)
    /\ pc = "attempt"
    /\ nodes[current].role = "user"
    /\ nodes[current].content = Str(<<"a">>)
    /\ Len(nodes) = 1

----------------------------------------------------------------------------
\* Claims about the registry (under SpecSend)

\* C19: after any add_tool calls each registered name has exactly one entry
\* in the schema list of the registry and in the one sent to the provider
C19_ToolNamesUnique ==
    /\ \A f \in function_map : Count(tools, f) = 1
    /\ \A i \in DOMAIN tools : tools[i] \in function_map
    /\ last_message.set =>
          \A i \in DOMAIN last_message.tools :
              Count(last_message.tools, last_message.tools[i]) = 1

----------------------------------------------------------------------------
\* Claims about the log (under Spec)

InSend == pc \in {"attempt", "process", "continue"}

\* the log grows only by the OUTGOING entry of a send that has made no
\* provider call yet, or by the INCOMING entry of a send that has made its
\* last provider call and returns its reply in that step
LogStep ==
    log' # log =>
        \/ /\ log' = Append(log, "OUTGOING")
           /\ pc = "idle"
           /\ hist'.attempts = 0
           /\ hist'.resends = 0
        \/ /\ log' = Append(log, "INCOMING")
           /\ pc = "process"
           /\ pc' = "idle"
           /\ outcome'.status = "ok"

\* C20: the OUTGOING entry of a send is written before its first provider
\* call, its INCOMING entry after its last provider call and before it
\* returns, and a send that fails writes no INCOMING entry
C20_LogOrder ==
    /\ [](InSend => (log # <<>> /\ log[Len(log)] = "OUTGOING"))
    /\ [][LogStep]_vars
    /\ [][(InSend /\ pc' = "idle" /\ outcome'.status = "ok")
             => log' = Append(log, "INCOMING")]_vars
    /\ [][(InSend /\ pc' = "idle" /\ outcome'.status # "ok") => log' = log]_vars

\* a send that was retried once and resent once after a truncated reply has
\* returned, with its two entries in the log
C20_Witness ==
    /\ Returned
    /\ hist.transients = 1
    /\ hist.resends = 1
    /\ log = <<"OUTGOING", "INCOMING">>

\* C21: a failure of the log append does not end the send: a send whose
\* OUTGOING entry cannot be written still calls the provider, and a send
\* whose INCOMING entry cannot be written still returns its reply
C21_LogFailureHarmless ==
    /\ (pc = "idle" /\ hist.sends > 0 /\ hist.attempts = 0) =>
          outcome.status = "AttributeError"
    /\ outcome.status # "OSError"

----------------------------------------------------------------------------
\* Claims about one send (under Spec)

\* the provider calls of the send: those of the retry loop and the resends
ProviderCalls == hist.attempts + hist.resends

IsToolUse(block) == block.type = "tool_use"

\* C22: a send with no transient error and no truncated reply makes exactly
\* one provider call, also when the reply requests tools; the tools are then
\* dispatched and the requests and results are the extra data of the reply
\* node appended
C22_OneProviderCall ==
    (hist.transients = 0 /\ hist.continues = 0) =>
        /\ ProviderCalls <= 1
        /\ Returned =>
              /\ ProviderCalls = 1
              /\ response.stop_reason = "tool_use" =>
                    /\ nodes[current].attrs.names = {"requests", "results"}
                    /\ nodes[current].attrs.requests =
                          SelectSeq(response.content, IsToolUse)
                    /\ nodes[current].attrs.results = results
                    /\ Len(results) = Len(nodes[current].attrs.requests)
                    /\ Len(hist.invoked) = Len(results)
              /\ response.stop_reason # "tool_use" =>
                    nodes[current].attrs.names = {}

\* a reply with two tool requests was dispatched and returned after the one
\* provider call of its send
C22_Witness ==
    /\ Returned
    /\ response.stop_reason = "tool_use"
    /\ ProviderCalls = 1
    /\ hist.transients = 0
    /\ Len(nodes[current].attrs.requests) = 2
    /\ Len(hist.invoked) = 2

----------------------------------------------------------------------------
\* Claims about two agents (under Spec)

----------------------------------------------------------------------------
\* Claims about the saved record (under Spec)

\* the nodes of a serialized tree
RECURSIVE DictSize(_)
RECURSIVE DictSizes(_, _)
DictSizes(reply_datas, i) ==
    IF i > Len(reply_datas) THEN 0
    ELSE DictSize(reply_datas[i]) + DictSizes(reply_datas, i + 1)
DictSize(data) == 1 + DictSizes(data.replies, 1)

\* C24: the record of Bot.save has no api_key and no mailbox; it has the
\* identity fields, the tool handler record and the whole conversation tree
\* from the root, every node the agent's tree holds
C24_SavedRecord ==
    pc = "idle" =>
        LET data == save(nodes, current, tools, function_map, requests, results,
                         tool_path)
        IN  /\ "api_key" \notin data.keys
            /\ "mailbox" \notin data.keys
            /\ {"name", "role", "role_description", "model_engine",
                "bot_class", "tool_handler", "conversation"} \subseteq data.keys
            /\ data.tool_handler.tools = tools
            /\ data.tool_handler.requests = requests
            /\ data.conversation.role = nodes[1].role
            /\ data.conversation.content = nodes[1].content
            /\ DictSize(data.conversation) = Len(nodes)

----------------------------------------------------------------------------
\* Claims about registering tools (under SpecReg)

\* a step that is an add_tools call
AddToolsStep == reg' # reg \/ tool_path' # tool_path

\* a step that is an add_tool or an add_tools call
RegistrationStep ==
    AddToolsStep \/ tools' # tools \/ function_map' # function_map

\* C25: add_tools on a path that does not exist raises FileNotFoundError and
\* adds no schema to tools and no name to function_map
C25_MissingFileAddsNothing ==
    [][(AddToolsStep /\ ~exists(reg'.path)) =>
          /\ reg'.status = "FileNotFoundError"
          /\ tools' = tools
          /\ function_map' = function_map]_vars

C25_Witness ==
    /\ reg.status = "FileNotFoundError"
    /\ tool_path = "missing.py"
    /\ tools # <<>>

\* C26: add_tool and add_tools leave every node of the tree, the agent's
\* current node and the pending requests and results as they were
C26_RegistrationFrame ==
    [][RegistrationStep =>
          /\ nodes' = nodes
          /\ current' = current
          /\ requests' = requests
          /\ results' = results]_vars

C26_Witness ==
    /\ reg.status = "ok"
    /\ reg.pre_nodes > 1
    /\ reg.pre_pending > 0
    /\ Len(tools) = 2

----------------------------------------------------------------------------
\* Claims about the backoff (under SpecSend)

----------------------------------------------------------------------------
\* Claims about the payload of the retries (under Spec)

\* how often the segment seg stands in the messages of the payload
InPayload(seg) ==
    Cardinality({<<m, k>> \in (DOMAIN last_message.messages) \X (1..8) :
        /\ k \in DOMAIN last_message.messages[m].content.segs
        /\ last_message.messages[m].content.segs[k] = seg})

\* C28: at every provider call of the retry loop the pending buffers are
\* empty and the payload holds each request and each result that was pending
\* when the send began exactly once; a retry submits the payload of the
\* attempt before it
C28_RetrySamePayload ==
    /\ [](pc = "attempt" =>
             /\ requests = <<>>
             /\ results = <<>>
             /\ last_message.set
             /\ \A i \in DOMAIN hist.pre_requests :
                   InPayload(hist.pre_requests[i]) = 1
             /\ \A i \in DOMAIN hist.pre_results :
                   InPayload(hist.pre_results[i]) = 1)
    /\ [][(pc = "attempt" /\ pc' = "attempt") =>
             (last_message' = last_message /\ requests' = <<>> /\ results' = <<>>)]_vars

\* a retry whose payload holds the two pairs that were pending
C28_Witness ==
    /\ pc = "attempt"
    /\ attempt = 1
    /\ Len(hist.pre_requests) = 2
    /\ Len(hist.pre_results) = 2
    /\ InPayload(hist.pre_requests[1]) = 1
    /\ InPayload(hist.pre_results[2]) = 1

----------------------------------------------------------------------------
\* Claims about the order of dispatch (under Spec)

\* C29: the callables are invoked in the order of the tool_use blocks of the
\* reply, one per block up to the one that fails, and the pending requests
\* and results stand in that order too
C29_DispatchInReplyOrder ==
    (pc = "idle" /\ response.stop_reason = "tool_use") =>
        LET blocks == SelectSeq(response.content, IsToolUse)
        IN  /\ Len(hist.invoked) <= Len(blocks)
            /\ \A k \in DOMAIN hist.invoked : hist.invoked[k] = blocks[k].id
            /\ Len(requests) = Len(results)
            /\ Len(requests) <= Len(hist.invoked)
            /\ \A k \in DOMAIN requests :
                  /\ requests[k] = blocks[k]
                  /\ results[k].tool_use_id = blocks[k].id
            /\ Returned => Len(requests) = Len(blocks)

\* two requests with different inputs dispatched, both pending
C29_Witness ==
    /\ pc = "idle"
    /\ response.stop_reason = "tool_use"
    /\ Len(hist.invoked) = 2
    /\ Len(requests) = 2
    /\ requests[1].input # requests[2].input
    /\ results[1] # results[2]

----------------------------------------------------------------------------
\* Claims about add_reply as a step (under SpecTree)

\* C30: once the root is no longer the empty sentinel, an add_reply call adds
\* exactly one node, whose parent is the receiver and which is the last of
\* the receiver's replies, and leaves role, content, parent and the replies
\* already there of every existing node as they were; no node goes away
C30_AppendOnly ==
    [][(nodes' # nodes /\ ~is_empty(nodes[1])) =>
          LET new == Len(nodes) + 1
          IN  /\ Len(nodes') = new
              /\ current' = new
              /\ nodes'[new].parent \in DOMAIN nodes
              /\ nodes'[new].replies = <<>>
              /\ \A m \in DOMAIN nodes :
                    /\ nodes'[m].role = nodes[m].role
                    /\ nodes'[m].content = nodes[m].content
                    /\ nodes'[m].parent = nodes[m].parent
                    /\ nodes'[m].replies =
                          IF m = nodes'[new].parent
                          THEN Append(nodes[m].replies, new)
                          ELSE nodes[m].replies]_vars

----------------------------------------------------------------------------
\* Claims about termination (under SpecSendFair)

\* the respond call has ended: a reply returned or an error raised
Done == pc = "idle" /\ outcome.status \notin {"none", "running"}

\* C31: a send makes at most 25 attempts and a respond call at most 8 sends,
\* and every respond call that has started ends with a reply or an error
C31_TurnTerminates ==
    /\ [](/\ hist.attempts <= max_retries
          /\ attempt <= max_retries - 1
          /\ hist.sends <= max_tool_prompts)
    /\ (pc # "idle") ~> Done

\* the 25th attempt of a send of a call with tool_auto is about to be made
C31_Witness ==
    /\ pc = "attempt"
    /\ call.tool_auto
    /\ hist.attempts = max_retries - 1

----------------------------------------------------------------------------
\* Claims about tool schemas (under SpecFile)

\* the schemas of the handler that carry the name of the definition node
SchemasOf(node) == {k \in DOMAIN loaded.tools : loaded.tools[k].name = node.name}

----------------------------------------------------------------------------
\* Claims about the resend of a truncated reply (under Spec)

\* C33: a send fails with a rate-limit or internal-server error only when the
\* provider call that raised it was the last of 25 tries; one such error of
\* the resend of a truncated reply does not fail the send
C33_ResendRetried ==
    (pc = "idle" /\ outcome.status \in TransientErrors) =>
        /\ hist.resends = 0 => hist.attempts = max_retries
        /\ hist.resends > 0 => hist.resends >= max_retries

----------------------------------------------------------------------------
\* Claims about save followed by load (under Spec)

\* C34: the agent loaded from the record of save stands where the saved agent
\* stood: build_messages of its current node gives the messages that
\* build_messages of the saved agent's current node gives
C34_LoadRestoresPosition ==
    pc = "idle" =>
        LET bot == load(save(nodes, current, tools, function_map, requests,
                             results, tool_path))
        IN  build_messages(bot.nodes, bot.current) = build_messages(nodes, current)

----------------------------------------------------------------------------
\* Claims about the saved tool handler (under SpecReg)

\* C35: the handler that from_dict makes of the record of to_dict has the
\* registered names, the schema list and the pending requests and results of
\* the handler saved, whether or not the tool files have changed since
C35_HandlerRoundTrip ==
    pc = "idle" =>
        \A unchanged \in BOOLEAN :
            LET handler == handler_from_dict(
                               to_dict(tools, function_map, requests, results),
                               unchanged)
            IN  /\ handler.function_map = function_map
                /\ handler.tools = tools
                /\ handler.requests = requests
                /\ handler.results = results

----------------------------------------------------------------------------
\* Claims about sends that interleave (under SpecBatch)

\* C36: the payload _process_response of a send reads from last_message is
\* the payload that send built
C36_OwnPayload ==
    \A w \in 1..MaxWorkers :
        workers[w].at = "done" => workers[w].read = workers[w].built

====
